---- MODULE Spec2Model ----
(***************************************************************************)
(* Model of server/middleware/turnstile.ts: a request gate that checks the *)
(* x-turnstile-token header against a Redis cache and, on a miss, against  *)
(* the Cloudflare siteverify service.                                      *)
(*                                                                         *)
(* JavaScript runs the code between two awaits without interruption, so    *)
(* every action below is one such segment of one request: from its start   *)
(* or from the completion of the call it awaits up to the next await (or   *)
(* the end of the handler).  Requests interleave only at the awaits.       *)
(***************************************************************************)
EXTENDS Integers, FiniteSets

\* ------------------------------------------------------------------ bounds

\* Number of requests the model lets arrive.
NReq == 2

\* Seconds that pass in one step of the clock.
TickSeconds == 300

Reqs == 1..NReq

\* The token values requests may carry.
Tokens == {"tokA", "tokB"}

\* getHeader gives undefined for an absent header; an empty header is "".
NoHeader == "<undefined>"
EmptyHeader == ""
Headers == {NoHeader, EmptyHeader} \cup Tokens

\* --------------------------------------------------------------- constants

\* const TOKEN_CACHE_DURATION = 10 * 60 * 1000 (milliseconds)
TOKEN_CACHE_DURATION == 10 * 60 * 1000

\* A slip: the duration is handed to setEx in milliseconds.
SetExMillis == TOKEN_CACHE_DURATION

\* The expiry handed to setEx, in seconds: TOKEN_CACHE_DURATION / 1000.
SetExSeconds == TOKEN_CACHE_DURATION \div 1000

\* A slip: the marker written is not the one isTokenValid compares with.
CacheValueTrue == "true"

\* The value written under the key turnstile:<token>.
CacheValue == "valid"

\* ---------------------------------------------------------------- responses

\* What the fetch of siteverify can produce: the promise rejects (transport
\* failure), or it resolves with a status and a body.  Bodies:
\*   success_true   {"success": true}
\*   success_false  {"success": false}
\*   success_1      {"success": 1}      (success present, not a boolean)
\*   not_json       response.json() rejects
Statuses == {200, 500}
Bodies == {"success_true", "success_false", "success_1", "not_json"}
NoResp == [fetch |-> "none", status |-> 0, body |-> "none"]
FetchRejected == [fetch |-> "rejected", status |-> 0, body |-> "none"]
FetchOutcomes ==
    {FetchRejected} \cup [fetch : {"resolved"}, status : Statuses, body : Bodies]

\* ----------------------------------------------------------------- outcomes

\* How the handler ends: it returns (the request proceeds), or it throws one
\* of the two errors built with createError, or an exception escapes it.
Pending == [result |-> "pending", statusCode |-> 0, error |-> "", message |-> ""]
PassThrough == [result |-> "return", statusCode |-> 0, error |-> "", message |-> ""]
\* A slip: the missing-token error with the status of a bad request.
MissingTokenError400 ==
    [result |-> "throw", statusCode |-> 400, error |-> "Authentication required",
     message |-> "X-Turnstile-Token header is required"]

MissingTokenError ==
    [result |-> "throw", statusCode |-> 401, error |-> "Authentication required",
     message |-> "X-Turnstile-Token header is required"]
InvalidTokenError ==
    [result |-> "throw", statusCode |-> 401, error |-> "Invalid token",
     message |-> "Turnstile token validation failed"]
UncaughtError ==
    [result |-> "throw", statusCode |-> 500, error |-> "uncaught", message |-> ""]

\* -------------------------------------------------------------------- state

VARIABLES
    TURNSTILE_SECRET_KEY,  \* TRUE iff process.env.TURNSTILE_SECRET_KEY is truthy
    REDIS_URL,             \* TRUE iff process.env.REDIS_URL is truthy
    redisClient,           \* the module-level handle: "null" or "client"
    connState,             \* of the client: "none", "connecting", "ready", "failed"
    cache,                 \* Redis: token -> [val, left]: value stored under
                           \* turnstile:<token> and the seconds it has left
    req,                   \* per request: position and locals of the handler
    verified,              \* history: tokens the Verifier answered success: true for
    written,               \* history: tokens the gate has written to the cache
    event,                 \* the addresses a request carries: getRequestIP(event)
                           \* and its cf-connecting-ip and x-forwarded-for headers
    params                 \* the form fields sent to siteverify for it

vars == <<TURNSTILE_SECRET_KEY, REDIS_URL, redisClient, connState, cache, req,
          verified, written, event, params>>

\* The values an address source can have: undefined, empty, or an address.
Addresses == {"10.0.0.1", "10.0.0.2"}
AddressValues == {NoHeader, EmptyHeader} \cup Addresses
Events == [requestIP : AddressValues, cfConnectingIp : AddressValues,
           xForwardedFor : AddressValues]
NoEvent == [requestIP |-> NoHeader, cfConnectingIp |-> NoHeader,
            xForwardedFor |-> NoHeader]

NoEntry == [val |-> "nil", left |-> 0]

\* A request before it arrives.
\*   pc       idle, connect_wait, init_wait, get_wait, verify_wait, set_wait, done
\*   token    the value of getHeader(event, 'x-turnstile-token')
\*   cached   what the awaited get produced: none, nil, error, or the value
\*   live     history: the key held an unexpired 'valid' when the get settled
\*   resp     what the fetch produced
\*   isValidFromCloudflare   what validateTurnstileToken returned
\*   setRes   what the awaited setEx produced: none, ok, error
\*   left     history: seconds left of the entry this request wrote
\*   age      history: seconds since this request wrote its entry
\*            (counted up to the expiry handed to setEx)
\*   vnow     history: the Verifier accepted this request and no time has
\*            passed since
\*   repeatOf history: the requests that had ended when this one arrived,
\*            carried the same token and had it accepted by the Verifier
\*   freshOf  history: those of repeatOf that had written an entry which had
\*            time left when the cache lookup of this request settled
\*   nGet, nSet, nVerify, nConnect   calls issued by this request
NewReq ==
    [pc |-> "idle", token |-> NoHeader, cached |-> "none", live |-> FALSE,
     resp |-> NoResp, isValidFromCloudflare |-> FALSE, setRes |-> "none",
     left |-> 0, age |-> 0, vnow |-> FALSE, repeatOf |-> {}, freshOf |-> {}, outcome |-> Pending,
     nGet |-> 0, nSet |-> 0, nVerify |-> 0, nConnect |-> 0]

Init ==
    /\ TURNSTILE_SECRET_KEY \in BOOLEAN
    /\ REDIS_URL \in BOOLEAN
    /\ redisClient = "null"
    /\ connState = "none"
    /\ cache = [t \in Tokens |-> NoEntry]
    /\ req = [r \in Reqs |-> NewReq]
    /\ verified = {}
    /\ written = {}
    /\ event = NoEvent
    /\ params = {}

\* ------------------------------------------------------------ pure helpers

\* A slip: the gate is skipped only when both settings are absent.
GateDisabledBoth == ~TURNSTILE_SECRET_KEY /\ ~REDIS_URL

\* if (!TURNSTILE_SECRET_KEY || !REDIS_URL) return;
GateDisabled == ~TURNSTILE_SECRET_KEY \/ ~REDIS_URL

\* A slip: the handle is reused only once its connection is open.
hasClientWhenReady == connState = "ready"

\* if (redisClient) return redisClient;
hasClient == redisClient # "null"

\* if (!token)
tokenMissing(h) == h \in {NoHeader, EmptyHeader}

\* A slip: the catch of validateTurnstileToken lets the token through.
validateTurnstileTokenCatchTrue(resp) ==
    IF ~TURNSTILE_SECRET_KEY THEN FALSE
    ELSE IF resp.fetch # "resolved" THEN TRUE
    ELSE IF resp.body = "not_json" THEN TRUE
    ELSE resp.body = "success_true"

\* Lines 29-32, 52-57: without the secret the result is false; the promise
\* of fetch or of json() rejecting lands in the catch and gives false;
\* otherwise the result is result.success === true.  response.status and
\* response.ok are never read.
validateTurnstileToken(resp) ==
    IF ~TURNSTILE_SECRET_KEY THEN FALSE
    ELSE IF resp.fetch # "resolved" THEN FALSE
    ELSE IF resp.body = "not_json" THEN FALSE
    ELSE resp.body = "success_true"

\* A slip: the lookup compares with another literal.
isTokenValidTrueLiteral(cached) == cached = "true"

\* return cached === 'valid'; the catch gives false.
isTokenValid(cached) == cached = "valid"

\* A slip: isTokenValid without its try/catch.
isTokenValidNoCatch(cached) == cached = "error"

\* Whether an exception of the awaited get leaves isTokenValid (it does not:
\* the try/catch of lines 64-70 swallows it).
isTokenValidThrows(cached) == FALSE

\* A slip: storeValidToken without its try/catch.
storeValidTokenNoCatch(setRes) == setRes = "error"

\* Whether an exception of the awaited setEx leaves storeValidToken (it does
\* not: the try/catch of lines 77-81 swallows it).
storeValidTokenThrows(setRes) == FALSE

\* A slip: the result of the Verifier is not looked at.
rejectInvalidNever(isValidFromCloudflare) == FALSE

\* if (!isValidFromCloudflare) throw ...
rejectInvalid(isValidFromCloudflare) == ~isValidFromCloudflare

\* What Redis answers to GET turnstile:<token>.
RedisGet(t) == IF cache[t].left > 0 THEN cache[t].val ELSE "nil"

Ended == {q \in Reqs : req[q].pc = "done"}

\* The ended requests that carried h and had it accepted by the Verifier.
EarlierVerified(h) ==
    {q \in Ended : req[q].token = h /\ req[q].isValidFromCloudflare}

\* Tokens are opaque and interchangeable: requests are numbered in the order
\* they arrive, and the tokens in the order they are first used.
ArrivingHeaders ==
    {NoHeader, EmptyHeader, "tokA"} \cup
    {t \in Tokens : \E q \in Reqs : req[q].pc # "idle" /\ req[q].token = "tokA"}

Finish(r, out) == [req EXCEPT ![r].pc = "done", ![r].outcome = out]

\* a || b: a if it is truthy (neither undefined nor empty), else b.
OrElse(a, b) == IF a \notin {NoHeader, EmptyHeader} THEN a ELSE b

\* A slip: the header of the proxy is preferred to the platform's address.
remoteipHeaderFirst(ev) ==
    OrElse(OrElse(ev.cfConnectingIp, ev.requestIP), ev.xForwardedFor)

\* getRequestIP(event) || getHeader(event, 'cf-connecting-ip') ||
\* getHeader(event, 'x-forwarded-for')
remoteip(ev) ==
    OrElse(OrElse(ev.requestIP, ev.cfConnectingIp), ev.xForwardedFor)

\* The URLSearchParams of lines 35-42: secret, response and, if remoteip is
\* truthy, remoteip.
FormFields(token, ip) ==
    {<<"secret", "TURNSTILE_SECRET_KEY">>, <<"response", token>>} \cup
    (IF ip \notin {NoHeader, EmptyHeader} THEN {<<"remoteip", ip>>} ELSE {})

\* ------------------------------------------------------------------ actions

\* The Verifier answered with a body whose success field is the boolean true.
SaidSuccess(resp) == resp.fetch = "resolved" /\ resp.body = "success_true"

StillFresh(r) == {q \in req[r].repeatOf : req[q].left > 0}

\* A slip: the fetch is issued a second time.
IssueVerifyTwice(rec) ==
    [rec EXCEPT !.pc = "verify_wait",
                !.nVerify = @ + (IF TURNSTILE_SECRET_KEY THEN 2 ELSE 0)]

\* The fetch of lines 44-50 is issued unless the secret is unset (lines 29-32).
IssueVerify(rec) ==
    [rec EXCEPT !.pc = "verify_wait",
                !.nVerify = @ + (IF TURNSTILE_SECRET_KEY THEN 1 ELSE 0)]

\* A request arrives (requests are numbered in the order they arrive) and the
\* handler runs to its first await (lines 84-91 and initRedis, lines 12-18).
\* With the gate disabled it returns at once.
\* Otherwise initRedis returns the existing handle, or createClient throws
\* into the catch (the handle stays null), or the new client is stored in
\* redisClient and its connect is awaited.
HandlerStart(r, h, createThrows) ==
    /\ req[r].pc = "idle"
    /\ \A q \in Reqs : q < r => req[q].pc # "idle"
    /\ h \in ArrivingHeaders
    /\ LET rec == [req[r] EXCEPT !.token = h, !.repeatOf = EarlierVerified(h)] IN
       IF GateDisabled
       THEN /\ req' = [req EXCEPT ![r] = [rec EXCEPT !.pc = "done",
                                                    !.outcome = PassThrough]]
            /\ UNCHANGED <<redisClient, connState>>
       ELSE IF hasClient \/ createThrows
       THEN /\ req' = [req EXCEPT ![r] = [rec EXCEPT !.pc = "init_wait"]]
            /\ UNCHANGED <<redisClient, connState>>
       ELSE /\ redisClient' = "client"
            /\ connState' = "connecting"
            /\ req' = [req EXCEPT ![r] = [rec EXCEPT !.pc = "connect_wait",
                                                    !.nConnect = @ + 1]]
    /\ UNCHANGED <<event, params, TURNSTILE_SECRET_KEY, REDIS_URL, cache, verified, written>>

\* The awaited connect settles (lines 18-24): initRedis returns the client or,
\* from the catch, null.  redisClient is not reset in the catch.
ConnectDone(r, ok) ==
    /\ req[r].pc = "connect_wait"
    /\ connState' = IF ok THEN "ready" ELSE "failed"
    /\ req' = [req EXCEPT ![r].pc = "init_wait"]
    /\ UNCHANGED <<event, params, TURNSTILE_SECRET_KEY, REDIS_URL, redisClient, cache,
                   verified, written>>

\* After await initRedis() (lines 93-106 and isTokenValid, lines 61-65): a
\* missing token is rejected; with no client isTokenValid returns false and
\* the handler, which touches no shared state in between, goes on to the
\* Verifier; otherwise the get is issued and awaited.
AfterInit(r) ==
    /\ req[r].pc = "init_wait"
    /\ req' = IF tokenMissing(req[r].token)
              THEN Finish(r, MissingTokenError)
              ELSE IF redisClient = "null"
              THEN [req EXCEPT ![r] =
                      IssueVerify([req[r] EXCEPT !.freshOf = StillFresh(r)])]
              ELSE [req EXCEPT ![r].pc = "get_wait", ![r].nGet = @ + 1]
    /\ UNCHANGED <<event, params, TURNSTILE_SECRET_KEY, REDIS_URL, redisClient, connState,
                   cache, verified, written>>

\* What a command on the client can produce: while the connect is in flight
\* the command waits in the client's queue; on a client that is not connected
\* it fails; on a connected one it is answered or fails.
CommandReplies(answer) ==
    IF connState = "ready" THEN {answer, "error"} ELSE {"error"}

\* The awaited get settles (lines 65-70, 106-114).
GetDone(r, res) ==
    /\ req[r].pc = "get_wait"
    /\ connState # "connecting"
    /\ res \in CommandReplies(RedisGet(req[r].token))
    /\ LET rec == [req[r] EXCEPT !.cached = res,
                                 !.live = RedisGet(req[r].token) = "valid",
                                 !.freshOf = StillFresh(r)] IN
       req' = [req EXCEPT ![r] =
                 IF res = "error" /\ isTokenValidThrows(res)
                 THEN [rec EXCEPT !.pc = "done", !.outcome = UncaughtError]
                 ELSE IF isTokenValid(res)
                 THEN [rec EXCEPT !.pc = "done", !.outcome = PassThrough]
                 ELSE IssueVerify(rec)]
    /\ UNCHANGED <<event, params, TURNSTILE_SECRET_KEY, REDIS_URL, redisClient, connState,
                   cache, verified, written>>

\* The awaited validateTurnstileToken settles (lines 52-57, 114-128 and
\* storeValidToken, lines 74-78): reject, or go on to store the token; with
\* no client storeValidToken returns at once and the request proceeds.
VerifyDone(r, resp) ==
    /\ req[r].pc = "verify_wait"
    /\ resp \in (IF req[r].nVerify > 0 THEN FetchOutcomes ELSE {NoResp})
    /\ LET ok == validateTurnstileToken(resp)
           rec == [req[r] EXCEPT !.resp = resp, !.isValidFromCloudflare = ok,
                                 !.vnow = ok] IN
       /\ req' = [req EXCEPT ![r] =
                    IF rejectInvalid(ok)
                    THEN [rec EXCEPT !.pc = "done", !.outcome = InvalidTokenError]
                    ELSE IF redisClient = "null"
                    THEN [rec EXCEPT !.pc = "done", !.outcome = PassThrough]
                    ELSE [rec EXCEPT !.pc = "set_wait", !.nSet = @ + 1]]
       /\ verified' = IF SaidSuccess(resp) THEN verified \cup {req[r].token}
                      ELSE verified
    /\ UNCHANGED <<event, params, TURNSTILE_SECRET_KEY, REDIS_URL, redisClient, connState,
                   cache, written>>

\* The awaited setEx settles (lines 78-81, 128-130).
SetDone(r, res) ==
    /\ req[r].pc = "set_wait"
    /\ connState # "connecting"
    /\ res \in CommandReplies("ok")
    /\ LET t == req[r].token
           rec == [req[r] EXCEPT !.setRes = res, !.pc = "done"] IN
       IF res = "ok"
       THEN /\ cache' = [cache EXCEPT ![t] = [val |-> CacheValue,
                                              left |-> SetExSeconds]]
            /\ written' = written \cup {t}
            /\ req' = [req EXCEPT ![r] = [rec EXCEPT !.left = SetExSeconds,
                                                    !.outcome = PassThrough]]
       ELSE /\ req' = [req EXCEPT ![r] =
                         [rec EXCEPT !.outcome = IF storeValidTokenThrows(res)
                                                 THEN UncaughtError
                                                 ELSE PassThrough]]
            /\ UNCHANGED <<cache, written>>
    /\ UNCHANGED <<event, params, TURNSTILE_SECRET_KEY, REDIS_URL, redisClient, connState,
                   verified>>

\* Time passes: every entry loses TickSeconds and is gone when none are left
\* (Redis drops a key when its expiry has run out).
Elapse(n) == IF n > TickSeconds THEN n - TickSeconds ELSE 0

Older(n) == IF n + TickSeconds >= SetExSeconds THEN SetExSeconds
            ELSE n + TickSeconds

Tick ==
    /\ \E t \in Tokens : cache[t].left > 0
    /\ cache' = [t \in Tokens |->
                   IF Elapse(cache[t].left) = 0 THEN NoEntry
                   ELSE [cache[t] EXCEPT !.left = Elapse(@)]]
    /\ req' = [r \in Reqs |->
                 [req[r] EXCEPT
                    !.left = Elapse(@),
                    !.age = IF req[r].setRes = "ok" THEN Older(@) ELSE @,
                    !.vnow = FALSE]]
    /\ UNCHANGED <<event, params, TURNSTILE_SECRET_KEY, REDIS_URL, redisClient, connState,
                   verified, written>>

Next ==
    \/ \E r \in Reqs, h \in Headers, c \in BOOLEAN : HandlerStart(r, h, c)
    \/ \E r \in Reqs, ok \in BOOLEAN : ConnectDone(r, ok)
    \/ \E r \in Reqs : AfterInit(r)
    \/ \E r \in Reqs, res \in {"valid", "nil", "error", CacheValue} : GetDone(r, res)
    \/ \E r \in Reqs, resp \in FetchOutcomes \cup {NoResp} : VerifyDone(r, resp)
    \/ \E r \in Reqs, res \in {"ok", "error"} : SetDone(r, res)
    \/ Tick

Spec == Init /\ [][Next]_vars

\* ------------------------------------------------- resolving the client IP

\* One request, with any addresses, at the point where it calls the Verifier
\* (lines 109-114 and 35-42).
InitIP ==
    /\ TURNSTILE_SECRET_KEY = TRUE
    /\ REDIS_URL = TRUE
    /\ redisClient = "null"
    /\ connState = "none"
    /\ cache = [t \in Tokens |-> NoEntry]
    /\ req = [r \in Reqs |-> NewReq]
    /\ verified = {}
    /\ written = {}
    /\ event \in Events
    /\ params = {}

SendToVerifier(token) ==
    /\ params = {}
    /\ params' = FormFields(token, remoteip(event))
    /\ UNCHANGED <<event, TURNSTILE_SECRET_KEY, REDIS_URL, redisClient,
                   connState, cache, req, verified, written>>

NextIP == \E t \in Tokens : SendToVerifier(t)

SpecIP == InitIP /\ [][NextIP]_vars

\* ------------------------------------------------------------------- claims

Configured == TURNSTILE_SECRET_KEY /\ REDIS_URL
IsDone(r) == req[r].pc = "done"
Allowed(r) == IsDone(r) /\ req[r].outcome.result = "return"
HasToken(r) == req[r].token \in Tokens
IsMissingTokenReply(o) ==
    /\ o.result = "throw"
    /\ o.statusCode = 401
    /\ o.error = "Authentication required"
    /\ o.message = "X-Turnstile-Token header is required"
IsInvalidTokenReply(o) ==
    /\ o.result = "throw"
    /\ o.statusCode = 401
    /\ o.error = "Invalid token"
    /\ o.message = "Turnstile token validation failed"

\* C1: with the secret and the cache URL both set, a request is allowed only
\* if it carries a token and either its cache lookup returned 'valid' or the
\* Verifier call made for it answered success.
C1_AllowedOnlyIfValid ==
    Configured =>
        \A r \in Reqs :
            Allowed(r) =>
                /\ HasToken(r)
                /\ \/ req[r].cached = "valid"
                   \/ req[r].nVerify = 1 /\ SaidSuccess(req[r].resp)

\* Both ways of being allowed have happened, after a failed cache lookup too.
C1_Witness ==
    /\ Configured
    /\ \E r \in Reqs : Allowed(r) /\ req[r].cached = "valid" /\ req[r].nVerify = 0
    /\ \E r \in Reqs : Allowed(r) /\ req[r].cached = "error"
                       /\ SaidSuccess(req[r].resp)

\* C2: every token the gate has written to the cache, and every entry the
\* cache holds, is of a token the Verifier had answered success for; the
\* value stored is 'valid'.
C2_WrittenOnlyAfterVerified ==
    /\ written \subseteq verified
    /\ \A t \in Tokens :
          cache[t] # NoEntry => t \in verified /\ t \in written
                                /\ cache[t].val = "valid"
    /\ \A r \in Reqs : req[r].nSet > 0 => req[r].token \in verified

\* One token is written while another, rejected by the Verifier, is not.
C2_Witness ==
    \E t \in Tokens, r \in Reqs :
        /\ t \in written
        /\ cache[t].left > 0
        /\ IsDone(r) /\ HasToken(r) /\ req[r].token # t
        /\ req[r].nVerify = 1 /\ ~SaidSuccess(req[r].resp)
        /\ req[r].token \notin written

\* C3 as stated: a request with no token header is rejected with the
\* missing-token error, whatever the rest of the state.
C3_NoTokenAlwaysRejected ==
    \A r \in Reqs :
        IsDone(r) /\ req[r].token = NoHeader => IsMissingTokenReply(req[r].outcome)

\* C3 amended: with the secret and the cache URL both set, a request with no
\* token header is rejected with status 401, error 'Authentication required'
\* and message 'X-Turnstile-Token header is required', whatever the cache
\* holds, the state of the connection and the answers of the Verifier.
C3_NoTokenRejectedWhenConfigured ==
    Configured =>
        \A r \in Reqs :
            IsDone(r) /\ req[r].token = NoHeader =>
                /\ IsMissingTokenReply(req[r].outcome)
                /\ req[r].nGet = 0 /\ req[r].nVerify = 0 /\ req[r].nSet = 0

\* Rejected for a missing token with the connection failed, and with an
\* entry in the cache.
C3_Witness ==
    /\ \E r \in Reqs : /\ IsDone(r) /\ req[r].token = NoHeader
                       /\ IsMissingTokenReply(req[r].outcome)
    /\ connState = "failed" \/ \E t \in Tokens : cache[t].left > 0

\* C4 as stated: a request whose token is marked valid and unexpired in the
\* cache when its lookup settles is allowed, with no Verifier call.
C4_LiveTokenAlwaysAllowed ==
    \A r \in Reqs :
        req[r].live => Allowed(r) /\ req[r].nVerify = 0

\* C4 amended: a request whose token is marked valid and unexpired in the
\* cache when its lookup settles, and whose get does not fail, is allowed,
\* with no Verifier call and no cache write.
C4_LiveTokenAllowedWhenGetSucceeds ==
    \A r \in Reqs :
        req[r].live /\ req[r].cached # "error" =>
            /\ Allowed(r)
            /\ req[r].cached = "valid"
            /\ req[r].nVerify = 0 /\ req[r].nSet = 0

C4_Witness ==
    \E r \in Reqs :
        /\ req[r].live /\ req[r].cached = "valid"
        /\ Allowed(r) /\ req[r].nVerify = 0

\* C5 as stated: a request the Verifier answers success for is allowed, and
\* a later request with the same token, whose lookup settles before any entry
\* the first one wrote has expired, is allowed with no Verifier call.
C5_RepeatAlwaysFromCache ==
    \A r1, r2 \in Reqs :
        /\ IsDone(r1) /\ req[r1].isValidFromCloudflare => Allowed(r1)
        /\ (/\ r1 \in req[r2].repeatOf
            /\ req[r1].setRes = "ok" => r1 \in req[r2].freshOf
            /\ IsDone(r2))
           => Allowed(r2) /\ req[r2].nVerify = 0

\* C5 amended: a request the Verifier answers success for is allowed; if its
\* cache write succeeded, a later request with the same token whose get does
\* not fail and settles before that entry has expired is allowed from the
\* cache, with no Verifier call.
C5_RepeatFromCacheWhenStored ==
    \A r1, r2 \in Reqs :
        /\ IsDone(r1) /\ req[r1].isValidFromCloudflare => Allowed(r1)
        /\ (/\ r1 \in req[r2].freshOf
            /\ req[r1].setRes = "ok"
            /\ req[r2].cached # "error")
           => /\ Allowed(r2)
              /\ req[r2].cached = "valid"
              /\ req[r2].nVerify = 0

C5_Witness ==
    \E r1, r2 \in Reqs :
        /\ r1 \in req[r2].freshOf
        /\ req[r1].cached = "nil" /\ req[r1].nVerify = 1 /\ req[r1].setRes = "ok"
        /\ Allowed(r1)
        /\ Allowed(r2) /\ req[r2].cached = "valid" /\ req[r2].nVerify = 0

\* The Verifier call of r reported failure, or the call itself failed.
VerifierFailed(r) ==
    /\ req[r].nVerify = 1
    /\ req[r].resp # NoResp
    /\ ~SaidSuccess(req[r].resp)

\* C6: a request whose token the cache lookup did not find, and whose
\* Verifier call reports failure or fails, is rejected with status 401, error
\* 'Invalid token' and message 'Turnstile token validation failed', and
\* writes nothing to the cache.
C6_FailedVerificationRejected ==
    \A r \in Reqs :
        HasToken(r) /\ req[r].cached # "valid" /\ VerifierFailed(r) =>
            /\ IsDone(r)
            /\ IsInvalidTokenReply(req[r].outcome)
            /\ ~req[r].isValidFromCloudflare
            /\ req[r].nSet = 0 /\ req[r].setRes = "none"
            /\ (req[r].token \in written =>
                  \E q \in Reqs : q # r /\ req[q].token = req[r].token
                                  /\ req[q].setRes = "ok")

\* Rejected after a reported failure, and rejected after a failed call.
C6_Witness ==
    /\ \E r \in Reqs : /\ req[r].cached = "nil"
                       /\ req[r].resp.body = "success_false"
                       /\ IsInvalidTokenReply(req[r].outcome)
    /\ \E r \in Reqs : /\ req[r].resp \in {FetchRejected} \cup
                            {x \in FetchOutcomes : x.body = "not_json"}
                       /\ IsInvalidTokenReply(req[r].outcome)

\* The cache was out of reach of r: no client, or its get or setEx failed.
CacheOutOfReach(r) ==
    /\ req[r].cached \in {"none", "error"}
    /\ req[r].setRes \in {"none", "error"}

\* C7: a request that could not reach the cache and whose token the Verifier
\* reports valid is allowed all the same, and leaves no entry; a later
\* request with the same token that cannot reach the cache either calls the
\* Verifier again and is allowed exactly when the Verifier reports valid.
C7_UnreachableCacheStillAllows ==
    \A r \in Reqs :
        Configured /\ IsDone(r) /\ HasToken(r) /\ CacheOutOfReach(r) =>
            /\ req[r].nVerify = 1
            /\ req[r].isValidFromCloudflare <=> Allowed(r)
            /\ ~req[r].isValidFromCloudflare <=> IsInvalidTokenReply(req[r].outcome)
            /\ req[r].left = 0
            /\ \A q \in req[r].repeatOf :
                  CacheOutOfReach(q) => req[q].nVerify = 1 /\ Allowed(q)

\* Two requests in a row with the same token, the cache failing for both.
C7_Witness ==
    \E r1, r2 \in Reqs :
        /\ r1 \in req[r2].repeatOf
        /\ CacheOutOfReach(r1) /\ CacheOutOfReach(r2)
        /\ req[r1].setRes = "error" /\ req[r2].cached = "error"
        /\ Allowed(r1) /\ Allowed(r2)
        /\ req[r1].nVerify = 1 /\ req[r2].nVerify = 1

\* C8: when the secret or the cache URL is absent every request is allowed,
\* with or without a token, and the gate creates no client, starts no
\* connect, and issues no get, no setEx and no Verifier call.
C8_DisabledGatePassesAll ==
    (~TURNSTILE_SECRET_KEY \/ ~REDIS_URL) =>
        /\ redisClient = "null" /\ connState = "none"
        /\ written = {} /\ verified = {}
        /\ \A t \in Tokens : cache[t] = NoEntry
        /\ \A r \in Reqs :
              /\ req[r].pc \in {"idle", "done"}
              /\ IsDone(r) => req[r].outcome = PassThrough
              /\ req[r].nConnect = 0 /\ req[r].nGet = 0
              /\ req[r].nSet = 0 /\ req[r].nVerify = 0

\* With only one of the two settings absent, a request without a token and
\* one with a token have both been allowed.
C8_Witness ==
    /\ TURNSTILE_SECRET_KEY # REDIS_URL
    /\ \E r \in Reqs : Allowed(r) /\ req[r].token = NoHeader
    /\ \E r \in Reqs : Allowed(r) /\ HasToken(r)

\* C9: a request that has ended has passed through or was rejected with one
\* of the two 401 errors; no failure of connect, get, setEx or the Verifier
\* call ends it any other way.
C9_ThreeOutcomes ==
    \A r \in Reqs :
        /\ IsDone(r) =>
              \/ req[r].outcome = PassThrough
              \/ IsMissingTokenReply(req[r].outcome)
              \/ IsInvalidTokenReply(req[r].outcome)
        /\ ~IsDone(r) => req[r].outcome = Pending

\* The connect failed, a get and a setEx failed, and a Verifier call failed
\* in transport and another in parsing.
C9_Witness ==
    /\ connState = "failed"
    /\ \E r \in Reqs : IsDone(r) /\ req[r].cached = "error" /\ req[r].setRes = "error"
    /\ \E r \in Reqs : IsDone(r) /\ req[r].resp = FetchRejected

\* C10 as stated: the Verifier's answer counts as success only when the
\* response is 2xx and its body has success = true (a boolean); any other
\* answer is rejected with the invalid-token error.
C10_SuccessNeeds2xx ==
    \A r \in Reqs :
        req[r].nVerify = 1 /\ req[r].resp # NoResp =>
            LET good == /\ SaidSuccess(req[r].resp)
                        /\ req[r].resp.status \in 200..299
            IN /\ req[r].isValidFromCloudflare <=> good
               /\ ~good => IsInvalidTokenReply(req[r].outcome)

\* C11 as stated: once a connect attempt has failed, a request that arrives
\* later makes a new connect attempt; meanwhile requests with a token are
\* settled by the Verifier alone.
C11_LaterRequestRetriesConnect ==
    [][\A r \in Reqs :
          /\ (Configured /\ connState = "failed"
                /\ req[r].pc = "idle" /\ req'[r].pc # "idle")
             => req'[r].nConnect = 1
          /\ (connState = "failed" /\ IsDone(r) /\ HasToken(r))
             => req[r].nVerify = 1 /\ req[r].cached # "valid"]_vars

\* C12 as stated: no get or setEx is outstanding on the shared client while
\* its connect is still in flight.
C12_NoCommandWhileConnecting ==
    \A r \in Reqs :
        req[r].pc \in {"get_wait", "set_wait"} => connState # "connecting"

\* The largest of a set of naturals, 0 for the empty set.
MaxOf(S) == IF S = {} THEN 0 ELSE CHOOSE m \in S : \A n \in S : n <= m

\* The requests that missed the cache, were accepted by the Verifier and ended.
VerifiedMiss(r) ==
    /\ IsDone(r) /\ HasToken(r)
    /\ req[r].cached # "valid"
    /\ req[r].nVerify = 1 /\ SaidSuccess(req[r].resp)

\* r1 had not ended when r2 arrived (requests are numbered as they arrive).
Overlapped(r1, r2) == r1 < r2 /\ r1 \notin req[r2].repeatOf

\* C13: of two overlapping cache-miss requests with the same token, both
\* accepted by the Verifier, each is allowed, each has made its own Verifier
\* call and at most its own write, and the cache holds for the token what one
\* write leaves: the single value 'valid' with the time left of the latest
\* write that succeeded (nothing when none did or all have run out).
C13_DuplicateMissesIdempotent ==
    \A r1, r2 \in Reqs :
        (/\ Overlapped(r1, r2)
         /\ req[r1].token = req[r2].token
         /\ VerifiedMiss(r1) /\ VerifiedMiss(r2))
        => LET t == req[r1].token
               m == MaxOf({req[q].left : q \in {x \in Reqs : req[x].token = t}})
           IN /\ Allowed(r1) /\ Allowed(r2)
              /\ req[r1].nVerify = 1 /\ req[r2].nVerify = 1
              /\ req[r1].nSet <= 1 /\ req[r2].nSet <= 1
              /\ cache[t] = IF m > 0 THEN [val |-> "valid", left |-> m]
                            ELSE NoEntry
              /\ t \in written <=>
                    \E q \in Reqs : req[q].token = t /\ req[q].setRes = "ok"

\* Both of two overlapping requests have verified and written the same token.
C13_Witness ==
    \E r1, r2 \in Reqs :
        /\ Overlapped(r1, r2)
        /\ req[r1].token = req[r2].token
        /\ VerifiedMiss(r1) /\ VerifiedMiss(r2)
        /\ req[r1].setRes = "ok" /\ req[r2].setRes = "ok"
        /\ req[r1].left # req[r2].left
        /\ cache[req[r1].token].left > 0

\* C18: at most one request ever creates a client and starts a connect; the
\* handle is set exactly when one has, and every other request that uses the
\* cache uses that client.
C18_ClientCreatedOnce ==
    /\ Cardinality({r \in Reqs : req[r].nConnect > 0}) <= 1
    /\ \A r \in Reqs : req[r].nConnect <= 1
    /\ redisClient = "client" <=> \E r \in Reqs : req[r].nConnect = 1
    /\ redisClient = "null" <=> connState = "none"
    /\ \A r \in Reqs : req[r].nGet > 0 \/ req[r].nSet > 0 => redisClient = "client"

\* A second request has used the client a first one created.
C18_Witness ==
    \E r1, r2 \in Reqs :
        /\ r1 # r2
        /\ req[r1].nConnect = 1 /\ req[r2].nConnect = 0
        /\ req[r2].nGet = 1 /\ req[r2].pc = "get_wait"
        /\ connState = "connecting"

\* The successful writers of token t.
Writers(t) == {q \in Reqs : req[q].token = t /\ req[q].setRes = "ok"}

\* The lookup of r has settled (or was skipped for want of a client).
LookedUp(r) ==
    /\ Configured /\ HasToken(r)
    /\ req[r].pc \in {"verify_wait", "set_wait", "done"}

\* Every entry lives exactly 600 seconds from its write: a written entry has
\* time left while fewer than 600 seconds have passed, and the two add up.
EntriesLive600 ==
    /\ \A r \in Reqs :
          /\ (req[r].setRes = "ok" /\ req[r].age < 600) =>
                req[r].left > 0 /\ req[r].left + req[r].age = 600
          /\ (req[r].setRes = "ok" /\ req[r].age >= 600) => req[r].left = 0
          /\ req[r].setRes # "ok" => req[r].left = 0 /\ req[r].age = 0
    /\ \A t \in Tokens :
          cache[t].left > 0 <=> \E q \in Writers(t) : req[q].age < 600

\* C14 as stated: entries are written with 600 seconds to live; a lookup
\* that settles after the entry has expired is a miss and the Verifier is
\* called again, one that settles before is a hit.
C14_Ttl600HitBeforeMissAfter ==
    /\ EntriesLive600
    /\ \A r \in Reqs :
          /\ (LookedUp(r) /\ ~req[r].live) =>
                req[r].cached # "valid" /\ req[r].nVerify = 1
          /\ req[r].live => req[r].cached = "valid" /\ req[r].nVerify = 0

\* C14 amended: entries are written with 600 seconds to live; a lookup that
\* settles after the entry has expired is a miss and the Verifier is called
\* again; one that settles before, and whose get does not fail, is a hit.
C14_Ttl600HitBeforeUnlessGetFails ==
    /\ EntriesLive600
    /\ \A r \in Reqs :
          /\ (LookedUp(r) /\ ~req[r].live) =>
                req[r].cached # "valid" /\ req[r].nVerify = 1
          /\ (req[r].live /\ req[r].cached # "error") =>
                req[r].cached = "valid" /\ req[r].nVerify = 0
          /\ (req[r].live /\ req[r].cached = "error") => req[r].nVerify = 1

\* A repeat of a stored token, looked up after its 600 seconds, is verified
\* again.
C14_Witness ==
    \E r1, r2 \in Reqs :
        /\ r1 \in req[r2].repeatOf /\ r1 \notin req[r2].freshOf
        /\ req[r1].setRes = "ok" /\ req[r1].age >= 600 /\ req[r1].left = 0
        /\ req[r2].cached = "nil" /\ req[r2].nVerify = 1

\* The time left of the entry of t, reckoned from the successful writes.
LeftByWrites(t) == MaxOf({600 - req[q].age : q \in Writers(t)})

\* A request served from the cache has written nothing.
HitsWriteNothing ==
    \A r \in Reqs :
        req[r].cached = "valid" =>
            /\ req[r].nSet = 0 /\ req[r].setRes = "none"
            /\ req[r].left = 0 /\ req[r].age = 0
            /\ Allowed(r)

\* C19 as stated: a hit writes nothing, and an entry expires 600 seconds
\* after the last time the Verifier accepted its token: when a request the
\* Verifier has just accepted ends, the entry has 600 seconds left.
C19_ExpiresAfterLastVerification ==
    /\ HitsWriteNothing
    /\ \A r \in Reqs :
          (IsDone(r) /\ req[r].vnow /\ SaidSuccess(req[r].resp)) =>
              cache[req[r].token] = [val |-> "valid", left |-> 600]

\* C19 amended: a hit writes nothing, and an entry expires 600 seconds after
\* the last successful write of its token, however many hits fall in
\* between.
C19_ExpiresAfterLastWrite ==
    /\ HitsWriteNothing
    /\ \A t \in Tokens :
          cache[t] = IF LeftByWrites(t) > 0
                     THEN [val |-> "valid", left |-> LeftByWrites(t)]
                     ELSE NoEntry

\* An entry has been hit part-way through its life and has kept its age.
C19_Witness ==
    \E r1, r2 \in Reqs :
        /\ r1 \in req[r2].freshOf
        /\ req[r2].cached = "valid" /\ Allowed(r2)
        /\ req[r1].age > 0 /\ req[r1].age < 600
        /\ cache[req[r1].token].left = 600 - req[r1].age

\* C20: a request issues at most one Verifier call, one get and one setEx,
\* and a request rejected for a missing token has issued none of them.
C20_AtMostOneCallEach ==
    \A r \in Reqs :
        /\ req[r].nVerify <= 1 /\ req[r].nSet <= 1 /\ req[r].nGet <= 1
        /\ req[r].nSet = 1 => req[r].nVerify = 1
        /\ IsMissingTokenReply(req[r].outcome) =>
              req[r].nGet = 0 /\ req[r].nSet = 0 /\ req[r].nVerify = 0

\* One request has made all three calls, another was rejected for a missing
\* token.
C20_Witness ==
    /\ \E r \in Reqs : req[r].nGet = 1 /\ req[r].nVerify = 1 /\ req[r].nSet = 1
                       /\ IsDone(r)
    /\ \E r \in Reqs : IsMissingTokenReply(req[r].outcome)

\* The Verifier answered and its body parsed, without success: true.
ReportedInvalid(resp) ==
    resp.fetch = "resolved" /\ resp.body \in {"success_false", "success_1"}

\* The call itself failed: the fetch rejected, or the body did not parse.
CallFailed(resp) ==
    resp.fetch = "rejected" \/ (resp.fetch = "resolved" /\ resp.body = "not_json")

\* C16: a request whose token the Verifier reported invalid and a request
\* whose Verifier call failed get the same reply, status and body, and
\* neither writes to the cache.
C16_FailureKindsIndistinguishable ==
    \A r1, r2 \in Reqs :
        (/\ req[r1].nVerify = 1 /\ ReportedInvalid(req[r1].resp)
         /\ req[r2].nVerify = 1 /\ CallFailed(req[r2].resp))
        => /\ IsDone(r1) /\ IsDone(r2)
           /\ req[r1].outcome = req[r2].outcome
           /\ IsInvalidTokenReply(req[r1].outcome)
           /\ req[r1].nSet = 0 /\ req[r2].nSet = 0
           /\ req[r1].left = 0 /\ req[r2].left = 0

\* A reported failure and a failed call have both been answered, for the
\* same token.
C16_Witness ==
    \E r1, r2 \in Reqs :
        /\ req[r1].token = req[r2].token
        /\ ReportedInvalid(req[r1].resp) /\ CallFailed(req[r2].resp)
        /\ IsDone(r1) /\ IsDone(r2)
        /\ req[r1].outcome = req[r2].outcome

\* --------------------------------------------------------------- liveness

\* Every awaited call settles and every settled continuation is run: the
\* event loop runs a ready continuation, and connect, get, setEx and fetch
\* are taken to return or fail in the end.
Fairness ==
    \A r \in Reqs :
        /\ WF_vars(\E ok \in BOOLEAN : ConnectDone(r, ok))
        /\ WF_vars(AfterInit(r))
        /\ WF_vars(\E res \in {"valid", "nil", "error", CacheValue} : GetDone(r, res))
        /\ WF_vars(\E resp \in FetchOutcomes \cup {NoResp} : VerifyDone(r, resp))
        /\ WF_vars(\E res \in {"ok", "error"} : SetDone(r, res))

FairSpec == Spec /\ Fairness

\* The steps of the per-request state machine: START is idle, EXTRACT_TOKEN
\* the wait for initRedis, CACHE_CHECK the wait for the get, VERIFY the wait
\* for the Verifier, CACHE_WRITE the wait for setEx; without a client the
\* check and the write are passed without a call to the cache.
MachineSteps ==
    {<<"idle", "done">>, <<"idle", "connect_wait">>, <<"idle", "init_wait">>,
     <<"connect_wait", "init_wait">>,
     <<"init_wait", "done">>, <<"init_wait", "get_wait">>,
     <<"init_wait", "verify_wait">>,
     <<"get_wait", "done">>, <<"get_wait", "verify_wait">>,
     <<"verify_wait", "done">>, <<"verify_wait", "set_wait">>,
     <<"set_wait", "done">>}

\* Where a request stands agrees with what it has done so far.
MachineOrder ==
    \A r \in Reqs :
        /\ IsDone(r) <=> req[r].outcome # Pending
        /\ IsDone(r) => \/ req[r].outcome = PassThrough
                        \/ IsMissingTokenReply(req[r].outcome)
                        \/ IsInvalidTokenReply(req[r].outcome)
        /\ req[r].nVerify >= 1 =>
              /\ Configured /\ HasToken(r)
              /\ req[r].cached # "valid"
              /\ req[r].nGet = 1 => req[r].cached # "none"
        /\ req[r].pc = "get_wait" => req[r].nVerify = 0
        /\ req[r].nSet >= 1 =>
              /\ req[r].nVerify = 1 /\ req[r].isValidFromCloudflare
              /\ SaidSuccess(req[r].resp)
        /\ (Allowed(r) /\ req[r].nSet >= 1) => req[r].setRes # "none"
        /\ (Allowed(r) /\ Configured) =>
              \/ req[r].cached = "valid" /\ req[r].nVerify = 0
              \/ req[r].isValidFromCloudflare
        /\ IsInvalidTokenReply(req[r].outcome) =>
              req[r].nVerify = 1 /\ ~req[r].isValidFromCloudflare
        /\ IsMissingTokenReply(req[r].outcome) => ~HasToken(r)

\* C17: every request moves along the steps of the state machine only, a
\* terminal state is never left, the lookup comes before the Verifier call
\* and the write after a Verifier success and before the request is allowed;
\* and, every call settling in the end, each request that has arrived
\* reaches a terminal state.
C17_StateMachineTerminates ==
    /\ []MachineOrder
    /\ [][\A r \in Reqs :
            /\ req'[r].pc # req[r].pc => <<req[r].pc, req'[r].pc>> \in MachineSteps
            /\ IsDone(r) => req'[r].outcome = req[r].outcome]_vars
    /\ \A r \in Reqs : (req[r].pc # "idle") ~> IsDone(r)

\* One request has gone through every step and was allowed, another was
\* rejected by the Verifier.
C17_Witness ==
    /\ \E r \in Reqs : /\ Allowed(r) /\ req[r].nConnect = 1 /\ req[r].cached = "nil"
                       /\ req[r].setRes = "ok"
    /\ \E r \in Reqs : IsInvalidTokenReply(req[r].outcome)

\* The first of the three addresses that is neither undefined nor empty.
Present(a) == a # NoHeader /\ a # EmptyHeader
FirstPresent(ev) ==
    IF Present(ev.requestIP) THEN {ev.requestIP}
    ELSE IF Present(ev.cfConnectingIp) THEN {ev.cfConnectingIp}
    ELSE IF Present(ev.xForwardedFor) THEN {ev.xForwardedFor}
    ELSE {}

\* C15: the remoteip sent to the Verifier is the first non-empty one of the
\* platform's request IP, cf-connecting-ip and x-forwarded-for (so the
\* platform's when all three are there), and the field is left out when none
\* is; secret and response are always sent.
C15_RemoteIpPrecedence ==
    params # {} =>
        /\ {f[2] : f \in {g \in params : g[1] = "remoteip"}} = FirstPresent(event)
        /\ \E f \in params : f[1] = "secret"
        /\ Cardinality({f \in params : f[1] = "response"}) = 1
        /\ (Present(event.requestIP) /\ Present(event.cfConnectingIp)
              /\ Present(event.xForwardedFor))
           => <<"remoteip", event.requestIP>> \in params

\* All three are there, the platform's differs from the headers', and the
\* platform's is sent.
C15_Witness ==
    /\ Present(event.requestIP) /\ Present(event.cfConnectingIp)
    /\ Present(event.xForwardedFor)
    /\ event.requestIP # event.cfConnectingIp
    /\ event.requestIP # event.xForwardedFor
    /\ <<"remoteip", event.requestIP>> \in params

====
